---- MODULE Spec2Model ----
(***************************************************************************)
(* Multi-process log aggregation pipeline of config_utils.                 *)
(*                                                                         *)
(* Producers put Envelopes (SharedLogMessage) on a shared queue.  A        *)
(* QueueListener, run in a daemonized process owned by a                   *)
(* QueueListenerDaemon, takes them off the queue and starts one worker     *)
(* thread per Envelope; the worker runs the handler callback.  The parent  *)
(* process drives the daemon with start_listener, stop_listener and        *)
(* refresh_daemon.                                                         *)
(*                                                                         *)
(* The manager's fields start as QueueListenerDaemon.__init__ assigns      *)
(* them: an unset stop event, a listener bound to the queue and the        *)
(* handler, and a daemon process object that has not been started (the     *)
(* first process object is taken as built).                                *)
(*                                                                         *)
(* SpecPipe covers the traffic on the queue with a daemon that is started  *)
(* and stopped gracefully; SpecLife covers the lifecycle calls with all    *)
(* timeouts and no traffic.  Spec is the two together.                     *)
(*                                                                         *)
(* The sinks that the listener's loggers write to are modelled one at a    *)
(* time: the batching handler (SpecBatch), and with it the SMTP handlers   *)
(* and the file handler with a header (SpecSinks).                         *)
(*                                                                         *)
(* The remaining parts have a specification each: init_server and          *)
(* get_shared_logger (SpecServer), the logger registry under the handler   *)
(* callback (SpecRegistry), several threads on one batching handler        *)
(* (SpecThreads), the listener serving the queue under fair scheduling     *)
(* (SpecServe), and the context classes (SpecContext).                     *)
(***************************************************************************)
EXTENDS Integers, Sequences, FiniteSets, TLC

\* ------------------------------------------------------------------ bounds
MaxEmit == 2      \* enqueue attempts made by the producers altogether
MaxFaults == 1    \* queue.get() calls that may raise
MaxGen == 1       \* daemon process objects that may be created after the first

MaxBatch == 3     \* records handed to the batching handler
MaxFlush == 2     \* delivery attempts a batching handler makes
MaxNow == 2       \* largest reading of the clock

MaxMail == 2      \* log calls made through the SMTP handler
MaxAttempts == 2  \* SMTP connections a handler attempts

MaxWrites == 3    \* records written through the file handler
MaxRolls == 1     \* rollovers of the log file

MaxCalls == 3     \* calls of init_server and get_shared_logger
MaxOps == 2       \* calls made on a context object
MaxHandled == 2   \* Envelopes the callback handles in the registry model

Loggers == {"p1"}         \* producers that log through a SharedLogHandler
Configurers == {"p2"}     \* producers that put config directives on the queue
Producers == Loggers \cup Configurers
Gens == 0..MaxGen
Timeouts == {-1, 0, 1}
HandlerKinds == {"server", "main"}

\* value of the local variable msg of listen() before its first assignment
Unbound == [src |-> "none", seq |-> 0, cfg |-> FALSE, rec |-> FALSE]

VARIABLES
    raise_on_exc,  \* QueueListenerDaemon.raise_on_exc, shared with the listener
    handler,       \* which handler callback the listener was built with
    queue,         \* the shared queue
    emitted,       \* number of enqueue attempts so far; numbers the Envelopes
    putLog,        \* history: Envelopes in the order they entered the queue
    handleErrors,  \* number of emit() calls that ended in handleError
    escaped,       \* number of emit() calls that raised to their caller
    getLog,        \* history: Envelopes in the order queue.get() returned them
    stop_event,    \* the Stop Event
    cur,           \* index of the process object held in self._daemon
    handle,        \* per process object: "none", "initial", "started", "closed"
    proc,          \* per process object: "none", "init", "wait", "exited"
    sig,           \* per process object: signal sent and not yet acted on
    streams,       \* per process: sys.stdout/sys.stderr, "std" or "redirected"
    lpc,           \* per process: position of the thread running listen()
    msg,           \* per process: local variable msg of listen()
    lastGet,       \* per process: outcome of the latest queue.get()
    faults,        \* number of queue.get() calls that raised
    workers,       \* worker threads in the order they were started
    call,          \* the lifecycle call of the parent process
    batch,         \* a BatchableLogHandler and what it has done so far
    mail,          \* a BufferingSMTPHandler and what it has done so far
    hfile,         \* a TimedRotatingFileHandlerWithHeader and its files
    server,        \* the globals of the log server module and its calls
    registry,      \* the loggers of the listener process, by name
    threads,       \* threads calling emit() and flush() on one handler
    context        \* a ListContext or DictContext and the calls made on it

vars == <<raise_on_exc, handler, queue, emitted, putLog, handleErrors, escaped,
          getLog, stop_event, cur, handle, proc, sig, streams, lpc, msg,
          lastGet, faults, workers, call, batch, mail, hfile, server,
          registry, threads, context>>

\* the state of the queue pipeline, and the state of the sinks
pipeVars == <<raise_on_exc, handler, queue, emitted, putLog, handleErrors,
              escaped, getLog, stop_event, cur, handle, proc, sig, streams,
              lpc, msg, lastGet, faults, workers, call>>
sinkVars == <<batch, mail, hfile>>

\* the state of the log server module, of the logger registry, of the
\* threads sharing a batching handler, and of a context object
apiVars == <<server, registry, threads, context>>

cfgVars == <<raise_on_exc, handler>>
prodVars == <<queue, emitted, putLog, handleErrors, escaped>>
listenVars == <<getLog, lpc, msg, lastGet, faults>>
daemonVars == <<cur, handle, proc, sig>>

\* ----------------------------------------------------------------- helpers
EnvelopeBlank(p, n, c, r) ==
    [src |-> p, seq |-> n, cfg |-> FALSE, rec |-> FALSE]

Envelope(p, n, c, r) == [src |-> p, seq |-> n, cfg |-> c, rec |-> r]

IsPrefix(s, t) == Len(s) <= Len(t) /\ SubSeq(t, 1, Len(s)) = s

FromProducer(s, p) == SelectSeq(s, LAMBDA e : e.src = p)

IsAlive(g) == proc[g] \in {"init", "wait"}

IdleCall == [op |-> "none", pc |-> "idle", timeout |-> -1, alive |-> FALSE,
             log |-> <<>>, outcome |-> "none", warned |-> FALSE, gen |-> 0]

\* the shared queue is first-in first-out: put adds at the back, get takes
\* from the front
QueuePutFront(q, e) == <<e>> \o q

QueuePut(q, e) == Append(q, e)

QueueFront(q) == Head(q)

QueueRest(q) == Tail(q)

\* ------------------------------------------------------------------- Init
PipeInit ==
    /\ raise_on_exc \in BOOLEAN
    /\ handler \in HandlerKinds
    /\ queue = <<>>
    /\ emitted = 0
    /\ putLog = <<>>
    /\ handleErrors = 0
    /\ escaped = 0
    /\ getLog = <<>>
    /\ stop_event = FALSE
    /\ cur = 0
    /\ handle = [g \in Gens |-> IF g = 0 THEN "initial" ELSE "none"]
    /\ proc = [g \in Gens |-> "none"]
    /\ sig = [g \in Gens |-> "none"]
    /\ streams = [g \in Gens |-> "std"]
    /\ lpc = [g \in Gens |-> "none"]
    /\ msg = [g \in Gens |-> Unbound]
    /\ lastGet = [g \in Gens |-> "none"]
    /\ faults = 0
    /\ workers = <<>>
    /\ call = IdleCall

\* value of _last_emitted before the first delivery attempt (None)
NoTime == -1

BatchKinds == {"base", "mongo"}
BufferSizes == {-1, 1}
BufferTimeouts == {-1, 1}

\* BatchableLogHandler.__init__; kind "none" stands for no handler built
BatchNew(kind, size, timeout) ==
    [kind |-> kind, size |-> size, timeout |-> timeout, buffer |-> <<>>,
     last_emitted |-> NoTime, now |-> 0, n |-> 0, delivered |-> <<>>,
     calls |-> 0, errors |-> 0, implicit |-> 0, op |-> <<>>,
     outcome |-> "none"]

NoBatch == BatchNew("none", -1, -1)

MailVariants == {"handlers", "log_utils"}
Capacities == {1, 2}
ToLists == {<<"t1">>, <<"t1", "t2">>}
CcLists == {<<>>, <<"c1">>}
BccLists == {<<"b1">>}

\* BufferingSMTPHandler.__init__ (config_utils.logging.handlers, or the older
\* one of log_utils) together with the setting of logging.raiseExceptions;
\* variant "none" stands for no handler built
MailNew(variant, raiseExc, capacity, to, cc, bcc) ==
    [variant |-> variant, raiseExceptions |-> raiseExc, capacity |-> capacity,
     to |-> to, cc |-> cc, bcc |-> bcc, buffer |-> <<>>, n |-> 0,
     flagged |-> 0, sent |-> <<>>, attempts |-> 0, connects |-> 0,
     sendmails |-> 0, lost |-> {},
     faulted |-> FALSE, op |-> "none", outcome |-> "none"]

NoMail == MailNew("none", TRUE, 1, <<>>, <<>>, <<>>)

\* what the log file holds when the handler is built: no file, an empty
\* file, a file with an earlier line, a file with the header and a line
\* ("H" the header line, "P" an earlier line, "R" a record of this handler)
Preexisting == {<<"absent">>, <<>>, <<"P">>, <<"H", "P">>}

\* the fields of a TimedRotatingFileHandlerWithHeader before its stream is
\* opened, and the files on disk
FileFields(built, header, delay, pre) ==
    [built |-> built, header |-> header, delay |-> delay, open |-> FALSE,
     exists |-> pre # <<"absent">>,
     base |-> IF pre = <<"absent">> THEN <<>> ELSE pre,
     archive |-> <<>>, writes |-> 0]

NoFile == FileFields(FALSE, FALSE, TRUE, <<"absent">>)

\* the log server module as imported: __LOGGER_QUEUE is None (0), and no
\* queue, QueueListenerDaemon or listener process has been made
ServerNew ==
    [logger_queue |-> 0, queues |-> 0, daemons |-> 0, starts |-> 0,
     warnings |-> 0, log |-> <<>>]

\* a logger as logging.getLogger creates it
DefaultLogger ==
    [exists |-> TRUE, level |-> "NOTSET", propagate |-> TRUE,
     filters |-> <<>>, handlers |-> <<>>]

\* a config directive for one logger; name "" stands for config = None
LoggerConfig(name, level, propagate, handlers) ==
    [name |-> name, level |-> level, propagate |-> propagate,
     handlers |-> handlers]

NoConfig == LoggerConfig("", "NOTSET", "none", <<>>)

\* the loggers of the listener process when it starts, with the Envelope the
\* callback handled last (record "" stands for record = None)
RegistryNew ==
    [loggers |-> [n \in {"a", "b"} |->
                     [DefaultLogger EXCEPT !.exists = FALSE]], handled |-> 0,
     last |-> [config |-> NoConfig, record |-> ""], logged |-> 0]

\* the threads that share one batching handler, each outside any call, and
\* the batches emit_many has been called with
Threads == {"t1", "t2"}

ThreadsNew == [pc |-> [t \in Threads |-> "idle"], batches |-> <<>>]

\* A Python object as the context classes see it: its class (t: "A" any
\* other object, "P" a plain list, "L" a ListContext, "D" a DictContext),
\* its identity, its name and __name__ attributes ("" when it has none) and
\* its items, each with its key ("" for the elements of a list).
Obj(t, id, name, dname, items) ==
    [t |-> t, id |-> id, name |-> name, dname |-> dname, items |-> items]

Item(k, v) == [k |-> k, v |-> v]

\* key = None
NoKey == ""

\* no context object built, and no call made on it
NoContext ==
    [recv |-> Obj("none", "", "", "", <<>>), calls |-> 0, op |-> "none",
     obj |-> Obj("none", "", "", "", <<>>), key |-> NoKey,
     before |-> Obj("none", "", "", "", <<>>)]


ApiInit ==
    /\ server = ServerNew
    /\ registry = RegistryNew
    /\ threads = ThreadsNew
    /\ context = NoContext

Init ==
    /\ PipeInit
    /\ batch = NoBatch
    /\ mail = NoMail
    /\ hfile = NoFile
    /\ ApiInit

\* -------------------------------------------------------------- producers
\* SharedLogHandler.emit: prepare the record, wrap it in an Envelope with no
\* config and enqueue it; any exception goes to handleError and nothing is
\* enqueued.
EmitOutcomeRaises(ok) == IF ok THEN "put" ELSE "raise"

EmitOutcome(ok) == IF ok THEN "put" ELSE "handleError"

EmitWhileListening(p) ==
    /\ emitted < MaxEmit
    /\ \E g \in Gens : IsAlive(g)
    /\ emitted' = emitted + 1
    /\ \E ok \in BOOLEAN :
        LET o == EmitOutcome(ok) IN
        /\ IF o = "put"
           THEN /\ queue' = QueuePut(queue,
                                     Envelope(p, emitted + 1, FALSE, TRUE))
                /\ putLog' = Append(putLog,
                                    Envelope(p, emitted + 1, FALSE, TRUE))
           ELSE UNCHANGED <<queue, putLog>>
        /\ handleErrors' = handleErrors + (IF o = "handleError" THEN 1 ELSE 0)
        /\ escaped' = escaped + (IF o = "raise" THEN 1 ELSE 0)
    /\ UNCHANGED <<apiVars, sinkVars, cfgVars, streams, listenVars, daemonVars,
                   stop_event, workers, call>>

Emit(p) ==
    /\ emitted < MaxEmit
    /\ emitted' = emitted + 1
    /\ \E ok \in BOOLEAN :
        LET o == EmitOutcome(ok) IN
        /\ IF o = "put"
           THEN /\ queue' = QueuePut(queue,
                                     Envelope(p, emitted + 1, FALSE, TRUE))
                /\ putLog' = Append(putLog,
                                    Envelope(p, emitted + 1, FALSE, TRUE))
           ELSE UNCHANGED <<queue, putLog>>
        /\ handleErrors' = handleErrors + (IF o = "handleError" THEN 1 ELSE 0)
        /\ escaped' = escaped + (IF o = "raise" THEN 1 ELSE 0)
    /\ UNCHANGED <<apiVars, sinkVars, cfgVars, streams, listenVars, daemonVars,
                   stop_event, workers, call>>

\* A producer holding the queue puts an Envelope that carries a config, with
\* or without a record.
PutConfig(p) ==
    /\ emitted < MaxEmit
    /\ emitted' = emitted + 1
    /\ \E r \in BOOLEAN :
        /\ queue' = QueuePut(queue, Envelope(p, emitted + 1, TRUE, r))
        /\ putLog' = Append(putLog, Envelope(p, emitted + 1, TRUE, r))
    /\ UNCHANGED <<handleErrors, escaped>>
    /\ UNCHANGED <<apiVars, sinkVars, cfgVars, streams, listenVars, daemonVars,
                   stop_event, workers, call>>

\* ------------------------------------------------------- daemon process
\* The wrapper built by daemonize runs the initializer, then
\* QueueListener.start, which starts the thread running listen() and then
\* waits on the stop event.
ProcInit(g) ==
    /\ proc[g] = "init"
    /\ proc' = [proc EXCEPT ![g] = "wait"]
    /\ lpc' = [lpc EXCEPT ![g] = "get"]
    /\ UNCHANGED <<apiVars, sinkVars, cfgVars, streams, prodVars, getLog, msg, lastGet,
                   faults, stop_event, cur, handle, sig, workers, call>>

\* QueueListener.start: the wait loop sees the stop event set and the
\* finally clause exits the process; its daemon threads end with it.
CoordExitBlocked(g) ==
    /\ proc[g] = "wait"
    /\ stop_event
    /\ lpc[g] = "dead"
    /\ proc' = [proc EXCEPT ![g] = "exited"]
    /\ lpc' = [lpc EXCEPT ![g] = "dead"]
    /\ sig' = [sig EXCEPT ![g] = "none"]
    /\ streams' = [streams EXCEPT ![g] = "std"]
    /\ UNCHANGED <<apiVars, sinkVars, cfgVars, prodVars, getLog, msg, lastGet, faults,
                   stop_event, cur, handle, workers, call>>

CoordExit(g) ==
    /\ proc[g] = "wait"
    /\ stop_event
    /\ proc' = [proc EXCEPT ![g] = "exited"]
    /\ lpc' = [lpc EXCEPT ![g] = "dead"]
    /\ sig' = [sig EXCEPT ![g] = "none"]
    /\ streams' = [streams EXCEPT ![g] = IF @ # "std" THEN "std" ELSE @]
    /\ UNCHANGED <<apiVars, sinkVars, cfgVars, prodVars, getLog, msg, lastGet, faults,
                   stop_event, cur, handle, workers, call>>

\* Code running in the listener process (the initializer, a handler) points
\* sys.stdout and sys.stderr away from the interpreter's original streams.
Redirect(g) ==
    /\ IsAlive(g)
    /\ streams[g] = "std"
    /\ streams' = [streams EXCEPT ![g] = "redirected"]
    /\ UNCHANGED <<apiVars, sinkVars, cfgVars, prodVars, listenVars, stop_event, cur,
                   handle, proc, sig, workers, call>>

\* A terminate or kill signal sent to the process takes effect.
ProcSignalled(g) ==
    /\ IsAlive(g)
    /\ sig[g] # "none"
    /\ proc' = [proc EXCEPT ![g] = "exited"]
    /\ lpc' = [lpc EXCEPT ![g] = IF @ = "none" THEN "none" ELSE "dead"]
    /\ sig' = [sig EXCEPT ![g] = "none"]
    /\ UNCHANGED <<apiVars, sinkVars, cfgVars, streams, prodVars, getLog, msg, lastGet,
                   faults, stop_event, cur, handle, workers, call>>

\* ------------------------------------------------------ QueueListener.listen
\* t = threading.Thread(target=self.handler, args=(msg,)); t.start()
NewWorker(g, e, fresh) ==
    [gen |-> g, env |-> e, fresh |-> fresh, pc |-> "run", steps |-> <<>>,
     handled |-> <<>>, outcome |-> "none"]

ListenGetJoin(g) ==
    /\ proc[g] = "wait"
    /\ lpc[g] = "get"
    /\ queue # <<>>
    /\ \A i \in DOMAIN workers : workers[i].pc = "done"
    /\ msg' = [msg EXCEPT ![g] = QueueFront(queue)]
    /\ queue' = QueueRest(queue)
    /\ getLog' = Append(getLog, QueueFront(queue))
    /\ lastGet' = [lastGet EXCEPT ![g] = "ok"]
    /\ workers' = Append(workers, NewWorker(g, QueueFront(queue), TRUE))
    /\ UNCHANGED <<apiVars, sinkVars, cfgVars, streams, emitted, putLog, handleErrors,
                   escaped, lpc, faults, stop_event, daemonVars, call>>

\* One iteration in which msg = self.queue.get() returns the Envelope at the
\* front of the queue and a worker thread is started for it.
ListenGet(g) ==
    /\ proc[g] = "wait"
    /\ lpc[g] = "get"
    /\ queue # <<>>
    /\ msg' = [msg EXCEPT ![g] = QueueFront(queue)]
    /\ queue' = QueueRest(queue)
    /\ getLog' = Append(getLog, QueueFront(queue))
    /\ lastGet' = [lastGet EXCEPT ![g] = "ok"]
    /\ workers' = Append(workers, NewWorker(g, QueueFront(queue), TRUE))
    /\ UNCHANGED <<apiVars, sinkVars, cfgVars, streams, emitted, putLog, handleErrors,
                   escaped, lpc, faults, stop_event, daemonVars, call>>

ListenGetOSErrorFatal(g) ==
    /\ proc[g] = "wait"
    /\ lpc[g] = "get"
    /\ faults < MaxFaults
    /\ faults' = faults + 1
    /\ lastGet' = [lastGet EXCEPT ![g] = "oserror"]
    /\ lpc' = [lpc EXCEPT ![g] = "dead"]
    /\ UNCHANGED <<apiVars, sinkVars, cfgVars, streams, prodVars, getLog, msg,
                   stop_event, daemonVars, workers, call>>

\* One iteration in which queue.get() raises OSError: continue.
ListenGetOSError(g) ==
    /\ proc[g] = "wait"
    /\ lpc[g] = "get"
    /\ faults < MaxFaults
    /\ faults' = faults + 1
    /\ lastGet' = [lastGet EXCEPT ![g] = "oserror"]
    /\ UNCHANGED <<apiVars, sinkVars, cfgVars, streams, prodVars, getLog, lpc, msg,
                   stop_event, daemonVars, workers, call>>

\* What an iteration does after queue.get() raised an Exception that is not
\* an OSError: "raise" re-raises it, which ends the thread; otherwise control
\* falls through to the thread start, where reading msg raises
\* UnboundLocalError ("unbound") if no get() has returned yet, and else a
\* worker is started with the msg of an earlier iteration ("stale").
AfterGetException(roe, m) ==
    IF roe THEN "raise" ELSE IF m = Unbound THEN "unbound" ELSE "stale"

\* One iteration in which queue.get() raises such an Exception.
ListenGetException(g) ==
    /\ proc[g] = "wait"
    /\ lpc[g] = "get"
    /\ faults < MaxFaults
    /\ faults' = faults + 1
    /\ lastGet' = [lastGet EXCEPT ![g] = "exception"]
    /\ IF AfterGetException(raise_on_exc, msg[g]) = "stale"
       THEN /\ workers' = Append(workers, NewWorker(g, msg[g], FALSE))
            /\ UNCHANGED lpc
       ELSE /\ lpc' = [lpc EXCEPT ![g] = "dead"]
            /\ UNCHANGED workers
    /\ UNCHANGED <<apiVars, sinkVars, cfgVars, streams, prodVars, getLog, msg,
                   stop_event, daemonVars, call>>

\* --------------------------------------------------------- handler callback
\* The config part of the callback: dictConfig is called when the Envelope
\* has a config.  _handle_shared_log_message ("server") catches an exception
\* of dictConfig and logs it; SharedLogListener.handle_request ("main") lets
\* it propagate.
ConfigStepsSilent(kind, e, ok) ==
    IF ~e.cfg THEN <<>>
    ELSE IF ok THEN <<"config">>
    ELSE <<"config_failed">>

ConfigSteps(kind, e, ok) ==
    IF ~e.cfg THEN <<>>
    ELSE IF ok THEN <<"config">>
    ELSE IF kind = "server" THEN <<"config_failed", "logged">>
    ELSE <<"config_failed">>

ConfigRaises(kind, e, ok) == e.cfg /\ ~ok /\ kind = "main"

\* The record part: the logger named by the record handles it.
RecordSteps(e) == IF e.rec THEN <<"record">> ELSE <<>>

HandleTargetRoot(e) == "root"

\* logging.getLogger(msg.record.name): the record's name is the name of the
\* logger its producer logged through
HandleTarget(e) == e.src

\* the handle calls of the record part: one, on the logger of that name,
\* with the record as it came off the queue
HandleCalls(e) ==
    IF e.rec THEN <<[logger |-> HandleTarget(e), record |-> e.seq]>>
    ELSE <<>>

HandleMessageRecordFirst(kind, e, ok) ==
    [steps |-> RecordSteps(e) \o ConfigSteps(kind, e, ok),
     handled |-> HandleCalls(e),
     outcome |-> IF ConfigRaises(kind, e, ok) THEN "raised" ELSE "returned"]

\* The callback as a whole: the config part, then the record part unless the
\* config part raised.
HandleMessage(kind, e, ok) ==
    [steps |-> ConfigSteps(kind, e, ok) \o
               (IF ConfigRaises(kind, e, ok) THEN <<>> ELSE RecordSteps(e)),
     handled |-> IF ConfigRaises(kind, e, ok) THEN <<>> ELSE HandleCalls(e),
     outcome |-> IF ConfigRaises(kind, e, ok) THEN "raised" ELSE "returned"]

\* A worker thread runs the callback on its Envelope and ends.
WorkerRun(i) ==
    /\ workers[i].pc = "run"
    /\ IsAlive(workers[i].gen)
    /\ \E ok \in BOOLEAN :
        LET r == HandleMessage(handler, workers[i].env, ok) IN
        workers' = [workers EXCEPT ![i].pc = "done",
                                   ![i].steps = r.steps,
                                   ![i].handled = r.handled,
                                   ![i].outcome = r.outcome]
    /\ UNCHANGED <<apiVars, sinkVars, cfgVars, streams, prodVars, listenVars,
                   stop_event, daemonVars, call>>

\* ------------------------------------------------------ QueueListenerDaemon
\* self._daemon.is_alive() on a process object that was closed raises
\* ValueError instead of answering.
IsClosed(g) == handle[g] = "closed"

\* _error: raise the exception when raise_on_exc, else only warn.
ErrorOutcome(roe) == IF roe THEN "ValueError" ELSE "returned"

CallFree == call.pc \in {"idle", "done"}

NewCall(op, t) ==
    [op |-> op, pc |-> "done", timeout |-> t, alive |-> IsAlive(cur),
     log |-> <<>>, outcome |-> "returned", warned |-> FALSE, gen |-> cur]

StartBranchAlways(alive) == "start"

\* start_listener: which branch of "if self._daemon.is_alive()" is taken.
StartBranch(alive) == IF alive THEN "error" ELSE "start"

\* start_listener().  Process.start() asserts that the process object was
\* not started before.
StartListener ==
    /\ CallFree
    /\ LET c == NewCall("start", -1) IN
       IF IsClosed(cur)
       THEN /\ call' = [c EXCEPT !.outcome = "ValueError", !.alive = FALSE]
            /\ UNCHANGED <<handle, proc>>
       ELSE IF StartBranch(IsAlive(cur)) = "error"
       THEN /\ call' = [c EXCEPT !.outcome = ErrorOutcome(raise_on_exc),
                                 !.warned = ~raise_on_exc]
            /\ UNCHANGED <<handle, proc>>
       ELSE IF handle[cur] = "initial"
       THEN /\ call' = [c EXCEPT !.log = <<"start">>]
            /\ handle' = [handle EXCEPT ![cur] = "started"]
            /\ proc' = [proc EXCEPT ![cur] = "init"]
       ELSE /\ call' = [c EXCEPT !.log = <<"start">>,
                                 !.outcome = "AssertionError"]
            /\ UNCHANGED <<handle, proc>>
    /\ UNCHANGED <<apiVars, sinkVars, cfgVars, streams, prodVars, listenVars,
                   stop_event, cur, sig, workers>>

\* stop_listener: whether control reaches self._stop_event.set() after the
\* "if not self._daemon.is_alive(): self._error(...)" statement.
StopProceeds(alive, roe) == alive \/ ~roe

AfterSetNoSleep(t) == IF t >= 0 THEN "terminate" ELSE "return"

AfterSetForce(t) == IF t > 0 THEN "sleep" ELSE "terminate"

\* stop_listener: what follows self._stop_event.set() for a given timeout.
AfterSet(t) == IF t = 0 THEN "terminate" ELSE IF t > 0 THEN "sleep" ELSE "return"

\* where a call goes once its stop_listener part has returned
StopReturns(op) == IF op = "refresh" THEN "daemonize" ELSE "done"

\* Entry of stop_listener(t), called directly (op "stop") or from
\* refresh_daemon (op "refresh"): the is_alive check, _error, and setting the
\* stop event.
StopBegin(op, t) ==
    /\ CallFree
    /\ LET c == NewCall(op, t) IN
       IF IsClosed(cur)
       THEN /\ call' = [c EXCEPT !.outcome = "ValueError", !.alive = FALSE]
            /\ UNCHANGED stop_event
       ELSE IF ~StopProceeds(IsAlive(cur), raise_on_exc)
       THEN /\ call' = [c EXCEPT !.outcome = "ValueError"]
            /\ UNCHANGED stop_event
       ELSE /\ stop_event' = TRUE
            /\ call' = [c EXCEPT !.warned = ~IsAlive(cur),
                                 !.log = <<"set">>,
                                 !.pc = IF AfterSet(t) = "return"
                                        THEN StopReturns(op) ELSE AfterSet(t)]
    /\ UNCHANGED <<apiVars, sinkVars, cfgVars, streams, prodVars, listenVars,
                   daemonVars, workers>>

StopListener(t) == StopBegin("stop", t)

RefreshDaemon(t) == StopBegin("refresh", t)

\* time.sleep(timeout) of stop_listener returns.
SleepElapsed ==
    /\ call.pc = "sleep"
    /\ call' = [call EXCEPT !.pc = "terminate", !.log = Append(@, "sleep")]
    /\ UNCHANGED <<apiVars, sinkVars, cfgVars, streams, prodVars, listenVars,
                   stop_event, daemonVars, workers>>

\* _stop_daemon: self._daemon.terminate().  On a process object that was
\* never started it raises AttributeError and the finally clause closes the
\* object.
Terminate ==
    /\ call.pc = "terminate"
    /\ IF handle[call.gen] = "initial"
       THEN /\ call' = [call EXCEPT !.pc = "done", !.outcome = "AttributeError",
                                    !.log = @ \o <<"terminate", "close">>]
            /\ handle' = [handle EXCEPT ![call.gen] = "closed"]
            /\ UNCHANGED sig
       ELSE /\ call' = [call EXCEPT !.pc = "grace", !.log = Append(@, "terminate")]
            /\ sig' = [sig EXCEPT ![call.gen] =
                           IF IsAlive(call.gen) THEN "term" ELSE @]
            /\ UNCHANGED handle
    /\ UNCHANGED <<apiVars, sinkVars, cfgVars, streams, prodVars, listenVars,
                   stop_event, cur, proc, workers>>

\* _stop_daemon: whether SIGKILL is sent after the grace period.
NeedsKill(alive) == alive

\* _stop_daemon: time.sleep(delay) returns; kill the process if it is still
\* alive.
GraceElapsed ==
    /\ call.pc = "grace"
    /\ IF NeedsKill(IsAlive(call.gen))
       THEN /\ sig' = [sig EXCEPT ![call.gen] = "kill"]
            /\ call' = [call EXCEPT !.pc = "close",
                                    !.log = @ \o <<"grace", "kill">>]
       ELSE /\ call' = [call EXCEPT !.pc = "close", !.log = Append(@, "grace")]
            /\ UNCHANGED sig
    /\ UNCHANGED <<apiVars, sinkVars, cfgVars, streams, prodVars, listenVars,
                   stop_event, cur, handle, proc, workers>>

CloseOutcomeAlways(running) == "returned"

\* Process.close() refuses to close a process that is still running.
CloseOutcome(running) == IF running THEN "ValueError" ELSE "returned"

\* _stop_daemon: the finally clause, self._daemon.close().
Close ==
    /\ call.pc = "close"
    /\ IF CloseOutcome(IsAlive(call.gen)) = "returned"
       THEN /\ handle' = [handle EXCEPT ![call.gen] = "closed"]
            /\ call' = [call EXCEPT !.pc = StopReturns(call.op),
                                    !.log = Append(@, "close")]
       ELSE /\ call' = [call EXCEPT !.pc = "done", !.outcome = "ValueError",
                                    !.log = Append(@, "close")]
            /\ UNCHANGED handle
    /\ UNCHANGED <<apiVars, sinkVars, cfgVars, streams, prodVars, listenVars,
                   stop_event, cur, proc, sig, workers>>

\* daemonize(ctx, worker, args, initializer=None, name=None): the parameters
\* without a default, and the ones refresh_daemon binds in
\* daemonize(self._listener.start, initializer=self.initializer).
DaemonizeRequired == {"ctx", "worker", "args"}

RefreshBinds == {"ctx", "initializer"}

DaemonizeCallBuilds(bound) == "process"

\* A call that leaves a required parameter unbound raises TypeError.
DaemonizeCall(bound) ==
    IF DaemonizeRequired \subseteq bound THEN "process" ELSE "TypeError"

\* refresh_daemon: self._daemon = daemonize(...), after stop_listener
\* returned.
Daemonize ==
    /\ call.pc = "daemonize"
    /\ IF DaemonizeCall(RefreshBinds) = "process"
       THEN /\ cur < MaxGen
            /\ cur' = cur + 1
            /\ handle' = [handle EXCEPT ![cur + 1] = "initial"]
            /\ call' = [call EXCEPT !.pc = "done", !.log = Append(@, "daemonize")]
       ELSE /\ call' = [call EXCEPT !.pc = "done", !.outcome = "TypeError",
                                    !.log = Append(@, "daemonize")]
            /\ UNCHANGED <<cur, handle>>
    /\ UNCHANGED <<apiVars, sinkVars, cfgVars, streams, prodVars, listenVars,
                   stop_event, proc, sig, workers>>

\* ------------------------------------------------------ BatchableLogHandler
\* emit_many of the concrete sink, called on the whole buffer.  The base
\* class stamps _last_emitted and hands each record to logging.Handler.emit,
\* which raises NotImplementedError; MongoLogHandler makes one insert_many
\* call, which succeeds or raises, and stamps nothing.
EmitMany(b, ok) ==
    IF b.kind = "base"
    THEN [last_emitted |-> b.now, delivered |-> b.delivered,
          raised |-> b.buffer # <<>>]
    ELSE [last_emitted |-> b.last_emitted,
          delivered |-> IF ok THEN b.delivered \o b.buffer ELSE b.delivered,
          raised |-> ~ok]

BufferAfterAlwaysClear(b, raised) == <<>>

\* flush clears the buffer after emit_many, unless emit_many raised
BufferAfter(b, raised) == IF raised THEN b.buffer ELSE <<>>

\* flush, the block under the lock: emit_many on the buffer, then clear,
\* or handleError when emit_many raised
FlushLocked(b, ok) ==
    LET r == EmitMany(b, ok) IN
    [b EXCEPT !.op = @ \o <<"flush", "lock", "emit_many">> \o
                     (IF r.raised THEN <<"handleError">> ELSE <<"clear">>)
                     \o <<"unlock">>,
              !.calls = @ + 1,
              !.last_emitted = r.last_emitted,
              !.delivered = r.delivered,
              !.errors = @ + (IF r.raised THEN 1 ELSE 0),
              !.buffer = BufferAfter(b, r.raised)]

BatchFlushAlways(b, ok) == FlushLocked(b, ok)

\* BatchableLogHandler.flush, called by one thread at a time
BatchFlush(b, ok) ==
    IF b.buffer = <<>>
    THEN [b EXCEPT !.op = @ \o <<"flush">>]
    ELSE FlushLocked(b, ok)

\* the flush predicate of emit, evaluated after the append; the subtraction
\* raises TypeError while _last_emitted is None
ShouldFlush(b) ==
    IF ~(Len(b.buffer) > b.size) THEN "no"
    ELSE IF b.last_emitted = NoTime THEN "TypeError"
    ELSE IF b.now - b.last_emitted >= b.timeout THEN "yes"
    ELSE "no"

\* BatchableLogHandler.emit
BatchEmitResult(b, ok) ==
    LET b1 == [b EXCEPT !.buffer = Append(@, b.n + 1), !.n = @ + 1,
                        !.op = <<"emit", "lock", "append", "unlock">>,
                        !.outcome = "returned"]
        d == ShouldFlush(b1)
    IN  IF d = "TypeError" THEN [b1 EXCEPT !.outcome = "TypeError"]
        ELSE IF d = "yes"
        THEN [BatchFlush(b1, ok) EXCEPT !.implicit = @ + 1]
        ELSE b1

BatchEmit ==
    /\ batch.kind # "none"
    /\ batch.n < MaxBatch
    /\ batch.calls < MaxFlush
    /\ \E ok \in BOOLEAN : batch' = BatchEmitResult(batch, ok)
    /\ UNCHANGED <<apiVars, pipeVars, mail, hfile>>

\* a direct call of flush()
BatchFlushCall ==
    /\ batch.kind # "none"
    /\ batch.calls < MaxFlush
    /\ \E ok \in BOOLEAN :
        batch' = BatchFlush([batch EXCEPT !.op = <<>>,
                                          !.outcome = "returned"], ok)
    /\ UNCHANGED <<apiVars, pipeVars, mail, hfile>>

\* time passes
BatchTick ==
    /\ batch.kind # "none"
    /\ batch.now < MaxNow
    /\ batch' = [batch EXCEPT !.now = @ + 1]
    /\ UNCHANGED <<apiVars, pipeVars, mail, hfile>>

NextBatch == BatchEmit \/ BatchFlushCall \/ BatchTick

InitBatch ==
    /\ PipeInit /\ raise_on_exc /\ handler = "server" /\ ApiInit
    /\ batch \in {BatchNew(k, sz, t) : k \in BatchKinds, sz \in BufferSizes,
                                      t \in BufferTimeouts}
    /\ mail = NoMail
    /\ hfile = NoFile

SpecBatch == InitBatch /\ [][NextBatch]_vars

\* ------------------------------------- BatchableLogHandler, several threads
\* emit, first part: the record is formatted and appended under the lock
ThreadEmitAppend(t) ==
    /\ threads.pc[t] = "idle"
    /\ batch.n < MaxBatch
    /\ batch' = [batch EXCEPT !.buffer = Append(@, batch.n + 1), !.n = @ + 1,
                              !.op = <<>>, !.outcome = "returned"]
    /\ threads' = [threads EXCEPT !.pc[t] = "check"]
    /\ UNCHANGED <<pipeVars, mail, hfile, server, registry, context>>

\* emit, second part: the flush predicate, evaluated without the lock
ThreadEmitCheck(t) ==
    /\ threads.pc[t] = "check"
    /\ threads' = [threads EXCEPT !.pc[t] = IF ShouldFlush(batch) = "yes"
                                            THEN "test" ELSE "idle"]
    /\ batch' = [batch EXCEPT !.outcome = IF ShouldFlush(batch) = "TypeError"
                                          THEN "TypeError" ELSE @]
    /\ UNCHANGED <<pipeVars, mail, hfile, server, registry, context>>

\* a thread calls flush()
ThreadFlushCall(t) ==
    /\ threads.pc[t] = "idle"
    /\ batch.calls < MaxFlush
    /\ threads' = [threads EXCEPT !.pc[t] = "test"]
    /\ UNCHANGED <<pipeVars, sinkVars, server, registry, context>>

\* flush: "if self._buffer", evaluated without the lock
ThreadFlushTest(t) ==
    /\ threads.pc[t] = "test"
    /\ threads' = [threads EXCEPT !.pc[t] = IF batch.buffer # <<>>
                                            THEN "locked" ELSE "idle"]
    /\ UNCHANGED <<pipeVars, sinkVars, server, registry, context>>

\* flush: the block under the lock, run on the buffer as it is by then
ThreadFlushLocked(t) ==
    /\ threads.pc[t] = "locked"
    /\ batch.calls < MaxFlush
    /\ \E ok \in BOOLEAN :
          /\ batch' = FlushLocked([batch EXCEPT !.op = <<>>], ok)
          /\ threads' = [threads EXCEPT
                            !.pc[t] = "idle",
                            !.batches = Append(@,
                                [items |-> batch.buffer,
                                 raised |-> EmitMany(batch, ok).raised])]
    /\ UNCHANGED <<pipeVars, mail, hfile, server, registry, context>>

NextThreads ==
    \E t \in Threads :
        \/ ThreadEmitAppend(t)
        \/ ThreadEmitCheck(t)
        \/ ThreadFlushCall(t)
        \/ ThreadFlushTest(t)
        \/ ThreadFlushLocked(t)

SpecThreads == InitBatch /\ [][NextThreads]_vars

\* ----------------------------------------------------- BufferingSMTPHandler
\* the value of a record's email attribute: falsy or absent, a truthy value
\* that is not a mapping (True), or a mapping of email data
EmailAttrs == {"false", "true", "map"}

\* what happens during one flush: nothing wrong, or a failure of the first
\* connection attempt, of a later step of the connection set-up (starttls,
\* login), of sendmail, or of quit
Nets == {"ok", "connect", "login", "send", "quit"}

\* _get_smtp_connection: the connections opened to the mail host.
\* smtplib.SMTP(host=..., port=...) connects, and after starttls and login
\* smtp.connect(...) opens a connection again.
ConnectsHandlers(net) ==
    IF net = "connect" THEN 0 ELSE IF net = "login" THEN 1 ELSE 2

\* log_utils: smtplib.SMTP(self.mailhost, self.mailport) connects
ConnectsLogUtils(net) == IF net = "connect" THEN 0 ELSE 1

RECURSIVE JoinWith(_, _)
JoinWith(list, sep) ==
    IF list = <<>> THEN <<>>
    ELSE IF Len(list) = 1 THEN list
    ELSE <<Head(list), sep>> \o JoinWith(Tail(list), sep)

\* EmailFormatter.format: the To and Cc headers; no Bcc header is written
ToHeader(m) == JoinWith(m.to, ", ")
CcHeader(m) == JoinWith(m.cc, ", ")

\* _get_recipients: one string, the addresses joined by commas
GetRecipients(m) == JoinWith(m.to \o m.cc \o m.bcc, ",")

\* smtplib.sendmail given a string as to_addrs: the string is taken as one
\* recipient, and its address is the first one parsed out of it
EnvelopeRecipients(str) == IF str = <<>> THEN <<>> ELSE <<Head(str)>>

\* AttributeFilter.filter on the handler of config_utils.logging.handlers
MailPasses(m, e) == m.variant = "log_utils" \/ e # "false"

\* EmailFormatter.format calls .get on the email attribute
FormatRaises(m, r) == r.email = "true"

Ids(buf) == {buf[k].id : k \in DOMAIN buf}
IdSeq(buf) == [k \in DOMAIN buf |-> buf[k].id]

\* the while loop of flush in config_utils.logging.handlers: pop the last
\* record, format and send it; an exception is re-raised or swallowed
RECURSIVE SendLoop(_, _)
SendLoop(m, net) ==
    IF m.buffer = <<>> THEN m
    ELSE LET r == m.buffer[Len(m.buffer)]
             rest == SubSeq(m.buffer, 1, Len(m.buffer) - 1)
             calls == IF FormatRaises(m, r) THEN 0 ELSE 1
         IN  IF ~(FormatRaises(m, r) \/ net = "send")
             THEN SendLoop([m EXCEPT !.buffer = rest,
                                     !.sendmails = @ + calls,
                                     !.sent = Append(@, <<r.id>>)], net)
             ELSE IF m.raiseExceptions
             THEN [m EXCEPT !.buffer = rest, !.sendmails = @ + calls,
                            !.outcome = "raised"]
             ELSE SendLoop([m EXCEPT !.buffer = rest,
                                     !.sendmails = @ + calls,
                                     !.lost = @ \cup {r.id}], net)

\* flush of config_utils.logging.handlers.BufferingSMTPHandler
FlushHandlers(m, net) ==
    IF m.buffer = <<>> THEN m
    ELSE IF net \in {"connect", "login"}
    THEN [m EXCEPT !.attempts = @ + 1, !.faulted = TRUE,
                   !.connects = @ + ConnectsHandlers(net),
                   !.outcome = "raised"]
    ELSE LET m1 == SendLoop([m EXCEPT !.attempts = @ + 1,
                                      !.connects = @ + ConnectsHandlers(net),
                                      !.faulted = @ \/ net # "ok"], net)
         IN  IF net = "quit" THEN [m1 EXCEPT !.outcome = "raised"] ELSE m1

\* flush of log_utils.BufferingSMTPHandler: one message for the whole buffer
FlushLogUtils(m, net) ==
    IF m.buffer = <<>> THEN m
    ELSE LET m1 == [m EXCEPT !.attempts = @ + 1,
                             !.connects = @ + ConnectsLogUtils(net),
                             !.faulted = @ \/ net # "ok",
                             !.sendmails = @ + (IF net \in {"connect", "login"}
                                                THEN 0 ELSE 1),
                             !.sent = IF net \in {"ok", "quit"}
                                      THEN Append(@, IdSeq(m.buffer)) ELSE @]
         IN  IF net = "ok" THEN [m1 EXCEPT !.buffer = <<>>]
             ELSE IF m.raiseExceptions THEN [m1 EXCEPT !.outcome = "raised"]
             ELSE [m1 EXCEPT !.buffer = <<>>,
                             !.lost = IF net = "quit" THEN @
                                      ELSE @ \cup Ids(m.buffer)]

MailFlush(m, net) ==
    IF m.variant = "handlers" THEN FlushHandlers(m, net)
    ELSE FlushLogUtils(m, net)

\* one log call on a logger whose only handler is the SMTP handler:
\* Handler.handle filters the record, BufferingHandler.emit appends it and
\* flushes when the buffer has reached the capacity
MailLogResult(m, e, net) ==
    LET m1 == [m EXCEPT !.n = @ + 1, !.op = "log", !.outcome = "returned",
                        !.flagged = @ + (IF e # "false" THEN 1 ELSE 0)]
    IN  IF ~MailPasses(m, e) THEN m1
        ELSE LET m2 == [m1 EXCEPT
                          !.buffer = Append(@, [id |-> m.n + 1, email |-> e])]
             IN  IF Len(m2.buffer) >= m2.capacity THEN MailFlush(m2, net)
                 ELSE m2

MailLog ==
    /\ mail.variant # "none"
    /\ mail.n < MaxMail
    /\ mail.attempts < MaxAttempts
    /\ \E e \in (IF mail.variant = "handlers" THEN EmailAttrs ELSE {"false"}),
          net \in Nets :
          mail' = MailLogResult(mail, e, net)
    /\ UNCHANGED <<apiVars, pipeVars, batch, hfile>>

\* a direct call of flush()
MailFlushCall ==
    /\ mail.variant # "none"
    /\ mail.attempts < MaxAttempts
    /\ \E net \in Nets :
          mail' = MailFlush([mail EXCEPT !.op = "flush",
                                         !.outcome = "returned"], net)
    /\ UNCHANGED <<apiVars, pipeVars, batch, hfile>>

NextMail == MailLog \/ MailFlushCall

InitMail ==
    /\ PipeInit /\ raise_on_exc /\ handler = "server" /\ ApiInit
    /\ batch = NoBatch
    /\ mail \in {MailNew("handlers", x, c, to, cc, bcc) :
                    x \in BOOLEAN, c \in Capacities, to \in ToLists,
                    cc \in CcLists, bcc \in BccLists}
               \cup {MailNew("log_utils", x, c, <<"t1">>, <<>>, <<>>) :
                    x \in BOOLEAN, c \in Capacities}
    /\ hfile = NoFile

\* --------------------------------------- TimedRotatingFileHandlerWithHeader
OpenAlwaysHeader(f) ==
    [f EXCEPT !.open = TRUE, !.exists = TRUE,
              !.base = IF f.header THEN Append(@, "H") ELSE @]

\* _open: the file is opened for appending (created when missing) and the
\* header is written when there is one and the stream's position is 0
Open(f) ==
    [f EXCEPT !.open = TRUE, !.exists = TRUE,
              !.base = IF f.header /\ Len(f.base) = 0 THEN Append(@, "H")
                       ELSE @]

\* __init__: FileHandler.__init__ opens the stream unless delay is set
FileNew(header, delay, pre) ==
    LET f == FileFields(TRUE, header, delay, pre) IN
    IF delay THEN f ELSE Open(f)

\* doRollover: close the stream, rename the file if it exists, and open a
\* new one unless delay is set
DoRollover(f) ==
    LET f1 == IF f.exists
              THEN [f EXCEPT !.open = FALSE, !.exists = FALSE,
                             !.archive = Append(@, f.base), !.base = <<>>]
              ELSE [f EXCEPT !.open = FALSE]
    IN  IF f.delay THEN f1 ELSE Open(f1)

\* emit: roll over when due, open the stream if there is none, write
FileEmitResult(f, roll) ==
    LET f1 == IF roll THEN DoRollover(f) ELSE f
        f2 == IF f1.open THEN f1 ELSE Open(f1)
    IN  [f2 EXCEPT !.base = Append(@, "R"), !.writes = @ + 1]

FileEmit ==
    /\ hfile.built
    /\ hfile.writes < MaxWrites
    /\ \E roll \in {r \in BOOLEAN : r => Len(hfile.archive) < MaxRolls} :
          hfile' = FileEmitResult(hfile, roll)
    /\ UNCHANGED <<apiVars, pipeVars, batch, mail>>

\* close(): the stream is closed; a later emit opens the file again
FileClose ==
    /\ hfile.built
    /\ hfile.open
    /\ hfile' = [hfile EXCEPT !.open = FALSE]
    /\ UNCHANGED <<apiVars, pipeVars, batch, mail>>

NextFile == FileEmit \/ FileClose

InitFile ==
    /\ PipeInit /\ raise_on_exc /\ handler = "server" /\ ApiInit
    /\ batch = NoBatch
    /\ mail = NoMail
    /\ hfile \in {FileNew(h, d, pre) :
                     h \in BOOLEAN, d \in BOOLEAN, pre \in Preexisting}

\* the sinks, one built at a time
NextSinks == NextBatch \/ NextMail \/ NextFile

InitSinks == InitBatch \/ InitMail \/ InitFile

SpecSinks == InitSinks /\ [][NextSinks]_vars

\* ----------------------------------------------------------- the log server
LoggerNames == {"a", "b"}
Levels == {"INFO", "DEBUG"}

\* QueueListenerDaemon.__init__: the attributes assigned before the
\* daemonize call, the attributes of self that call's arguments read, and
\* the parameters of daemonize the call binds
CtorAssigned == {"_stop_event", "_listener"}

CtorReads == {"_listener", "initializer"}

\* QueueListenerDaemon(...): reading an attribute that is not assigned yet
\* raises AttributeError; then the daemonize call is made
DaemonCtor ==
    IF ~(CtorReads \subseteq CtorAssigned) THEN "AttributeError"
    ELSE IF DaemonizeCall({"ctx", "initializer"}) = "process" THEN "built"
    ELSE "TypeError"

AlreadyInitializedNever(s) == FALSE

\* init_server: "if __LOGGER_QUEUE is not None"
AlreadyInitialized(s) == s.logger_queue # 0

ServerCall(op, arg, level, outcome) ==
    [op |-> op, arg |-> arg, level |-> level, outcome |-> outcome]

\* init_server(ctx)
InitServerResult(s, ctx) ==
    IF AlreadyInitialized(s)
    THEN [s EXCEPT !.warnings = @ + 1,
                   !.log = Append(@, ServerCall("init_server", ctx, "",
                                                "warned"))]
    ELSE LET s1 == [s EXCEPT !.queues = @ + 1,
                             !.logger_queue = s.queues + 1]
         IN  IF DaemonCtor = "built"
             THEN [s1 EXCEPT !.daemons = @ + 1, !.starts = @ + 1,
                             !.log = Append(@, ServerCall("init_server", ctx,
                                                          "", "returned"))]
             ELSE [s1 EXCEPT !.log = Append(@, ServerCall("init_server", ctx,
                                                          "", DaemonCtor))]

InitServer ==
    /\ Len(server.log) < MaxCalls
    /\ \E ctx \in {"fork", "spawn"} : server' = InitServerResult(server, ctx)
    /\ UNCHANGED <<pipeVars, sinkVars, registry, threads, context>>

\* the fields of the SharedLogMessage that server.py imports from .config,
\* a dataclass whose fields have no defaults
MessageFields == {"record", "setup", "set_level"}

\* SharedLogMessage(**kwargs)
MessageCtor(kwargs) ==
    IF kwargs \subseteq MessageFields /\ MessageFields \subseteq kwargs
    THEN "built" ELSE "TypeError"

\* get_shared_logger(name, config): how the call ends
GetSharedLoggerOutcome(s) ==
    IF s.logger_queue = 0 THEN "SharedLoggerException"
    ELSE IF MessageCtor({"config"}) # "built" THEN MessageCtor({"config"})
    ELSE "put"

GetSharedLogger(p) ==
    /\ Len(server.log) < MaxCalls
    /\ \E name \in LoggerNames, level \in Levels :
          server' = [server EXCEPT !.log =
                        Append(@, ServerCall("get_shared_logger", name, level,
                                             GetSharedLoggerOutcome(server)))]
    /\ IF GetSharedLoggerOutcome(server) = "put"
       THEN /\ emitted' = emitted + 1
            /\ queue' = QueuePut(queue, Envelope(p, emitted + 1, TRUE, FALSE))
            /\ putLog' = Append(putLog,
                                Envelope(p, emitted + 1, TRUE, FALSE))
       ELSE UNCHANGED <<queue, emitted, putLog>>
    /\ UNCHANGED <<sinkVars, cfgVars, streams, listenVars, daemonVars,
                   stop_event, workers, call, handleErrors, escaped,
                   registry, threads, context>>

NextServer ==
    \/ InitServer
    \/ \E p \in Configurers : GetSharedLogger(p)

SpecServer == Init /\ [][NextServer]_vars

\* ------------------------------------------------------- logger registry
\* logging.config.dictConfig on a one-logger config ends in one of three
\* ways: applied ("ok"); raised before the logger was touched ("early");
\* raised while adding the handlers, after the level was set and the
\* logger's handlers were removed ("handlers")
\* dictConfig({version, disable_existing_loggers: False,
\*             loggers: {config.name: config.to_dict()}})
DictConfig(loggers, c, end) ==
    LET l == IF loggers[c.name].exists THEN loggers[c.name]
             ELSE DefaultLogger
    IN  IF end = "early" THEN loggers
        ELSE IF end = "handlers"
        THEN [loggers EXCEPT ![c.name] =
                 [l EXCEPT !.level = c.level, !.handlers = <<>>]]
        ELSE [loggers EXCEPT ![c.name] =
                 [l EXCEPT !.level = c.level, !.handlers = c.handlers,
                           !.propagate = IF c.propagate = "none" THEN @
                                         ELSE c.propagate = "true"]]

GetLoggerReset(loggers, name) == [loggers EXCEPT ![name] = DefaultLogger]

\* logging.getLogger(name): the logger of that name, created when missing
GetLogger(loggers, name) ==
    IF loggers[name].exists THEN loggers
    ELSE [loggers EXCEPT ![name] = DefaultLogger]

\* _handle_shared_log_message on the registry: the config part, whose
\* exception is caught and logged, then the record part
HandleInRegistry(r, config, record, end) ==
    LET l1 == IF config.name # "" THEN DictConfig(r.loggers, config, end)
              ELSE r.loggers
        l2 == IF record # "" THEN GetLogger(l1, record) ELSE l1
    IN  [loggers |-> l2, handled |-> r.handled + 1,
         last |-> [config |-> config, record |-> record],
         logged |-> r.logged +
                    (IF config.name # "" /\ end # "ok" THEN 1 ELSE 0)]

RegistryConfigs ==
    {NoConfig} \cup
    {LoggerConfig(n, l, pr, h) : n \in LoggerNames, l \in Levels,
                                 pr \in {"none", "false"}, h \in {<<>>, <<"h1">>}}

\* the callback runs on one Envelope
RegistryHandle ==
    /\ registry.handled < MaxHandled
    /\ \E config \in RegistryConfigs, record \in LoggerNames \cup {""},
          end \in {"ok", "early", "handlers"} :
          /\ config.name # "" \/ record # ""
          /\ config.name = "" => end = "ok"
          /\ registry' = HandleInRegistry(registry, config, record, end)
    /\ UNCHANGED <<pipeVars, sinkVars, server, threads, context>>

NextRegistry == RegistryHandle

InitRegistry == Init /\ raise_on_exc /\ handler = "server"

SpecRegistry == InitRegistry /\ [][NextRegistry]_vars

\* -------------------------------------------------------- context objects
Atom1 == Obj("A", "@x", "", "", <<>>)
Atom2 == Obj("A", "@y", "n1", "", <<>>)
Atom3 == Obj("A", "@z", "", "sub", <<>>)
List0 == Obj("L", "@l0", "", "", <<>>)
List1 == Obj("L", "@l1", "", "", <<Item("", Atom2)>>)
Dict0 == Obj("D", "@d0", "", "", <<>>)
Dict1 == Obj("D", "@d1", "", "", <<Item("sub", Atom2), Item("#1", Atom1)>>)

\* the objects handed to the calls, and the keys (strings, as annotated)
Objects ==
    {Atom1, Atom2, Atom3, Obj("P", "@p", "", "", <<Item("", Atom1)>>),
     List1, Dict1}
CallKeys == {NoKey, "sub", "1"}

\* the contexts the calls are made on; "#1" is the integer key 1
Receivers ==
    {List0,
     Obj("L", "@r1", "", "", <<Item("", Atom1)>>),
     Dict0,
     Obj("D", "@r2", "", "", <<Item("#1", Atom1), Item("sub", List0)>>),
     Obj("D", "@r3", "", "", <<Item("sub", Dict0), Item("1", Atom1)>>)}

\* str(key)
Str(k) == IF k = "#1" THEN "1" ELSE k

\* isinstance(obj, ContextMixin)
IsContext(obj) == obj.t \in {"L", "D"}

\* isinstance(obj, self.__class__)
IsInstance(obj, cls) == obj.t = cls

HasKey(d, k) == \E i \in DOMAIN d.items : d.items[i].k = k

\* self[k]
Lookup(d, k) == d.items[CHOOSE i \in DOMAIN d.items : d.items[i].k = k].v

\* self[k] = v
SetItem(d, k, v) ==
    IF HasKey(d, k)
    THEN [d EXCEPT !.items = [i \in DOMAIN @ |->
                                 IF @[i].k = k THEN Item(k, v) ELSE @[i]]]
    ELSE [d EXCEPT !.items = Append(@, Item(k, v))]

\* DictContext._get_identifier
GetIdentifier(item, key) ==
    IF key # NoKey THEN Str(key)
    ELSE IF item.name # "" THEN item.name
    ELSE IF item.dname # "" THEN item.dname
    ELSE item.id

RECURSIVE Join(_, _)
RECURSIVE Insert(_, _, _)
RECURSIVE Merge(_, _)
RECURSIVE InsertItem(_, _, _)
RECURSIVE MergeItems(_, _)

InsertItemAssign(recv, key, value) == SetItem(recv, key, value)

\* DictContext._insert_item
InsertItem(recv, key, value) ==
    IF HasKey(recv, key) /\ IsContext(Lookup(recv, key))
    THEN SetItem(recv, key, Join(Lookup(recv, key), value))
    ELSE SetItem(recv, key, value)

\* ListContext.insert(item) and DictContext.insert(item, key)
Insert(recv, item, key) ==
    IF recv.t = "L" THEN [recv EXCEPT !.items = Append(@, Item("", item))]
    ELSE InsertItem(recv, GetIdentifier(item, key), item)

\* DictContext.merge: the loop over other.items()
MergeItems(recv, items) ==
    IF items = <<>> THEN recv
    ELSE MergeItems(InsertItem(recv, Head(items).k, Head(items).v),
                    Tail(items))

\* ListContext.merge(other) and DictContext.merge(other)
Merge(recv, other) ==
    IF recv.t = "L" THEN [recv EXCEPT !.items = @ \o other.items]
    ELSE MergeItems(recv, other.items)

JoinAlwaysInserts(recv, obj) == Insert(recv, obj, NoKey)

\* ContextMixin.join(obj)
Join(recv, obj) ==
    IF IsInstance(obj, recv.t) THEN Merge(recv, obj)
    ELSE Insert(recv, obj, NoKey)

ContextCall(c, op, obj, key, after) ==
    [recv |-> after, calls |-> c.calls + 1, op |-> op, obj |-> obj,
     key |-> key, before |-> c.recv]

ContextJoin ==
    /\ context.calls < MaxOps
    /\ \E obj \in Objects :
          context' = ContextCall(context, "join", obj, NoKey,
                                 Join(context.recv, obj))
    /\ UNCHANGED <<pipeVars, sinkVars, server, registry, threads>>

ContextInsert ==
    /\ context.calls < MaxOps
    /\ \E obj \in Objects,
          key \in (IF context.recv.t = "D" THEN CallKeys ELSE {NoKey}) :
          context' = ContextCall(context, "insert", obj, key,
                                 Insert(context.recv, obj, key))
    /\ UNCHANGED <<pipeVars, sinkVars, server, registry, threads>>

ContextMerge ==
    /\ context.calls < MaxOps
    /\ \E other \in {o \in Objects : IsInstance(o, context.recv.t)} :
          context' = ContextCall(context, "merge", other, NoKey,
                                 Merge(context.recv, other))
    /\ UNCHANGED <<pipeVars, sinkVars, server, registry, threads>>

NextContext == ContextJoin \/ ContextInsert \/ ContextMerge

InitContext ==
    /\ PipeInit /\ raise_on_exc /\ handler = "server"
    /\ batch = NoBatch /\ mail = NoMail /\ hfile = NoFile
    /\ server = ServerNew /\ registry = RegistryNew /\ threads = ThreadsNew
    /\ context \in {[NoContext EXCEPT !.recv = r, !.before = r] :
                       r \in Receivers}

SpecContext == InitContext /\ [][NextContext]_vars

\* ------------------------------------------------------------ specification
Next ==
    \/ \E p \in Loggers : Emit(p)
    \/ \E p \in Configurers : PutConfig(p)
    \/ \E g \in Gens : ProcInit(g)
    \/ \E g \in Gens : CoordExit(g)
    \/ \E g \in Gens : ProcSignalled(g)
    \/ \E g \in Gens : ListenGet(g)
    \/ \E g \in Gens : ListenGetOSError(g)
    \/ \E g \in Gens : ListenGetException(g)
    \/ \E i \in DOMAIN workers : WorkerRun(i)
    \/ StartListener
    \/ \E t \in Timeouts : StopListener(t)
    \/ \E t \in Timeouts : RefreshDaemon(t)
    \/ SleepElapsed
    \/ Terminate
    \/ GraceElapsed
    \/ Close
    \/ Daemonize

Spec == Init /\ [][Next]_vars

\* The pipeline: producers, the daemon process with its listener and
\* workers, started by start_listener and stopped by stop_listener().
NextPipe ==
    \/ \E p \in Loggers : Emit(p)
    \/ \E p \in Configurers : PutConfig(p)
    \/ \E g \in Gens : ProcInit(g)
    \/ \E g \in Gens : CoordExit(g)
    \/ \E g \in Gens : ListenGet(g)
    \/ \E g \in Gens : ListenGetOSError(g)
    \/ \E g \in Gens : ListenGetException(g)
    \/ \E i \in DOMAIN workers : WorkerRun(i)
    \/ StartListener
    \/ StopListener(-1)

SpecPipe == Init /\ [][NextPipe]_vars

\* The lifecycle: the calls of the parent process and the daemon process
\* reacting to them, with no traffic on the queue.
NextLife ==
    \/ \E g \in Gens : ProcInit(g)
    \/ \E g \in Gens : CoordExit(g)
    \/ \E g \in Gens : ProcSignalled(g)
    \/ StartListener
    \/ \E t \in Timeouts : StopListener(t)
    \/ \E t \in Timeouts : RefreshDaemon(t)
    \/ SleepElapsed
    \/ Terminate
    \/ GraceElapsed
    \/ Close
    \/ Daemonize

SpecLife == Init /\ [][NextLife]_vars

\* The lifecycle calls together with what the listener process does by
\* itself while no Envelope arrives: failing get() calls and redirection of
\* its streams.  The wait loop of QueueListener.start wakes at least once a
\* second, so its exit is not postponed for ever once it is possible.
NextStop ==
    \/ NextLife
    \/ \E g \in Gens : Redirect(g)
    \/ \E g \in Gens : ListenGetOSError(g)
    \/ \E g \in Gens : ListenGetException(g)

SpecStop ==
    Init /\ [][NextStop]_vars /\ \A g \in Gens : WF_vars(CoordExit(g))

\* The listener serving the queue with the stop event never set: the
\* producers, start_listener, the daemon process and its workers.  The
\* process runs its initializer and starts the loop once it is started, and
\* the loop's blocking get() returns once an Envelope is on the queue.
NextServe ==
    \/ \E p \in Loggers : Emit(p)
    \/ \E p \in Configurers : PutConfig(p)
    \/ \E g \in Gens : ProcInit(g)
    \/ \E g \in Gens : ListenGet(g)
    \/ \E g \in Gens : ListenGetOSError(g)
    \/ \E g \in Gens : ListenGetException(g)
    \/ \E i \in DOMAIN workers : WorkerRun(i)
    \/ StartListener

SpecServe ==
    /\ Init
    /\ [][NextServe]_vars
    /\ \A g \in Gens : WF_vars(ProcInit(g)) /\ WF_vars(ListenGet(g))

\* ------------------------------------------------------------------ claims
FreshEnvs ==
    LET f == SelectSeq(workers, LAMBDA w : w.fresh)
    IN [i \in 1..Len(f) |-> f[i].env]

\* C1: the Envelopes of each producer are taken off the queue, and their
\* workers started, in the order in which that producer enqueued them.
C1_FifoPerProducer ==
    /\ \A p \in Producers :
         IsPrefix(FromProducer(getLog, p), FromProducer(putLog, p))
    /\ FreshEnvs = getLog

C1_Witness ==
    \E p \in Producers : Len(FromProducer(getLog, p)) >= 2

IsConfigStep(x) == x \in {"config", "config_failed"}

C3_HandedExactlyOnce ==
    /\ \A i \in DOMAIN workers : workers[i].fresh
    /\ \A i, j \in DOMAIN workers : i # j => workers[i].env # workers[j].env

\* C4: once the stop event is set, no Envelope is taken off the queue and no
\* worker is started.
C4_NoDequeueAfterStop ==
    [][stop_event => (getLog' = getLog /\ Len(workers') = Len(workers))]_vars

StopZeroLogs ==
    {<<"set", "terminate", "grace", "close">>,
     <<"set", "terminate", "grace", "kill", "close">>}

\* C5: when stop_listener(0), called on a running daemon, returns, the
\* daemon process is not alive: terminate was sent, the grace period passed,
\* and kill was sent if needed.
C5_StopZeroLeavesDead ==
    (/\ call.op = "stop" /\ call.timeout = 0 /\ call.alive
     /\ call.pc = "done" /\ call.outcome = "returned")
    => (~IsAlive(call.gen) /\ call.log \in StopZeroLogs)

C5_Witness ==
    /\ call.op = "stop" /\ call.timeout = 0 /\ call.alive
    /\ call.pc = "done" /\ call.outcome = "returned"
    /\ call.log = <<"set", "terminate", "grace", "kill", "close">>

\* C6: start_listener() on a live daemon starts no process and changes
\* neither the daemon nor the stop event; it raises ValueError when
\* raise_on_exc is true and only warns when it is false.
C6_StartWhileAlive ==
    [][(call' # call /\ call'.op = "start" /\ call'.alive) =>
          /\ UNCHANGED <<stop_event, cur, handle, proc, sig>>
          /\ call'.log = <<>>
          /\ call'.outcome = (IF raise_on_exc THEN "ValueError" ELSE "returned")
          /\ call'.warned = ~raise_on_exc]_vars

C6_Witness ==
    /\ call.op = "start" /\ call.alive /\ call.pc = "done"
    /\ IsAlive(cur)

StopLog(t, killed) ==
    <<"set">> \o (IF t > 0 THEN <<"sleep">> ELSE <<>>) \o <<"terminate", "grace">>
    \o (IF killed THEN <<"kill">> ELSE <<>>) \o <<"close">>

StopPart(log) == SelectSeq(log, LAMBDA x : x # "daemonize")

\* C7: a stop_listener(timeout >= 0) on a running daemon sets the stop
\* event, sleeps when timeout > 0, terminates, waits the grace period, kills
\* only a process that is still alive, and closes last, in this order.
C7_StopOrder ==
    /\ (call.op \in {"stop", "refresh"} /\ call.timeout >= 0 /\ call.alive) =>
          /\ \E killed \in BOOLEAN :
                IsPrefix(StopPart(call.log), StopLog(call.timeout, killed))
          /\ call.pc \in {"done", "daemonize"} =>
                \E killed \in BOOLEAN :
                    StopPart(call.log) = StopLog(call.timeout, killed)
    /\ \A g \in Gens : sig[g] = "kill" => IsAlive(g)

C7_Witness ==
    /\ call.op = "stop" /\ call.timeout > 0 /\ call.alive /\ call.pc = "done"
    /\ call.log = <<"set", "sleep", "terminate", "grace", "kill", "close">>

\* C8: stop_listener(timeout < 0) only sets the stop event: it sends no
\* signal and closes nothing, during the call or after it.
C8_NegativeTimeoutOnlySets ==
    [][(call'.op = "stop" /\ call'.timeout < 0) =>
          /\ call'.log \in {<<>>, <<"set">>}
          /\ call'.pc = "done"
          /\ cur' = cur
          /\ \A g \in Gens :
                /\ sig'[g] # "none" => sig'[g] = sig[g]
                /\ handle'[g] = "closed" => handle[g] = "closed"]_vars

C8_Witness ==
    /\ call.op = "stop" /\ call.timeout < 0 /\ call.alive /\ call.pc = "done"
    /\ call.log = <<"set">>
    /\ IsAlive(cur)

\* C9: stop_listener() on a daemon that is not alive raises ValueError when
\* raise_on_exc is true and warns when it is false, and does nothing else:
\* the stop event is not set and no terminate, kill or close is issued.
C9_StopNotAliveDoesNothing ==
    (call.op = "stop" /\ ~call.alive) =>
        /\ call.log = <<>>
        /\ raise_on_exc => call.outcome = "ValueError"
        /\ ~raise_on_exc => call.warned

\* C10: when refresh_daemon has stopped the listener and is over, the manager
\* holds a new process object that has not been started.
C10_RefreshLeavesUnstartedDaemon ==
    (/\ call.op = "refresh" /\ call.pc = "done"
     /\ \E k \in DOMAIN call.log : call.log[k] = "daemonize")
    => /\ call.outcome = "returned"
       /\ cur # call.gen
       /\ handle[cur] = "initial"
       /\ proc[cur] = "none"

Attempted(c, x) == \E k \in DOMAIN c.log : c.log[k] = x

\* C11: a start_listener() that follows a refresh_daemon of a running daemon
\* starts the new process object, which then runs the listener.
C11_StartAfterRefreshRuns ==
    [][(/\ call.op = "refresh" /\ call.pc = "done" /\ call.alive
        /\ Attempted(call, "daemonize")
        /\ call'.op = "start") =>
          /\ call'.outcome = "returned"
          /\ call'.log = <<"start">>
          /\ cur' # call.gen
          /\ proc'[cur'] = "init"]_vars

\* C12: whatever calls are made, at most one listener process is alive.
C12_AtMostOneAlive ==
    Cardinality({g \in Gens : IsAlive(g)}) <= 1

C12_Witness ==
    /\ call.op = "refresh" /\ call.pc = "done" /\ call.timeout < 0
    /\ IsAlive(call.gen)
    /\ lpc[call.gen] = "get"
\* C13: an iteration in which queue.get() raises OSError starts no worker,
\* takes nothing off the queue and leaves the loop at its next get().
C13_OSErrorRetries ==
    [][\A g \in Gens :
          (/\ proc[g] = "wait" /\ lpc[g] = "get"
           /\ faults' # faults /\ lastGet'[g] = "oserror") =>
              /\ workers' = workers
              /\ queue' = queue /\ getLog' = getLog
              /\ lpc'[g] = "get" /\ proc'[g] = "wait"]_vars

C13_Witness ==
    \E g \in Gens :
        /\ raise_on_exc /\ faults >= 1
        /\ lastGet[g] = "ok" /\ lpc[g] = "get" /\ proc[g] = "wait"
        /\ Len(workers) >= 1
Did(w, x) == \E k \in DOMAIN w.steps : w.steps[k] = x

FailsConfig(i) ==
    /\ workers[i].pc = "run"
    /\ workers'[i].pc = "done"
    /\ Did(workers'[i], "config_failed")

\* C14: with the log server's callback, an exception raised while applying an
\* Envelope's config is caught and logged inside the callback, which returns;
\* the dispatch loop is left where it was and still takes the next Envelope.
C14_ConfigFailureContained ==
    [][handler = "server" =>
        /\ \A i \in DOMAIN workers :
              FailsConfig(i) =>
                  /\ Did(workers'[i], "logged")
                  /\ workers'[i].outcome = "returned"
                  /\ lpc' = lpc /\ proc' = proc /\ queue' = queue
        /\ \A g \in Gens :
              (/\ \E i \in DOMAIN workers : Did(workers[i], "config_failed")
               /\ proc[g] = "wait" /\ lpc[g] = "get" /\ queue # <<>>)
              => ENABLED ListenGet(g)]_vars

C14_Witness ==
    /\ handler = "server"
    /\ \E i, j \in DOMAIN workers :
          /\ i < j
          /\ workers[i].pc = "done" /\ Did(workers[i], "config_failed")
          /\ workers[j].pc = "done" /\ workers[j].fresh
          /\ Did(workers[j], "record")
          /\ lpc[workers[j].gen] = "get"
\* C15: when applying an Envelope's config fails, the failure is logged and
\* the record carried by the same Envelope is not handed to a logger.
C15_FailedEnvelopeDropped ==
    handler = "server" =>
        \A i \in DOMAIN workers :
            (workers[i].pc = "done" /\ Did(workers[i], "config_failed")) =>
                /\ Did(workers[i], "logged")
                /\ ~Did(workers[i], "record")

\* C16: a failure to apply a config ends the worker with the exception when
\* raise_on_exc is set, after it has been logged, and is swallowed when it is
\* not set.
C16_ReraiseFollowsFlag ==
    handler = "server" =>
        \A i \in DOMAIN workers :
            (workers[i].pc = "done" /\ Did(workers[i], "config_failed")) =>
                /\ Did(workers[i], "logged")
                /\ raise_on_exc => workers[i].outcome = "raised"
                /\ ~raise_on_exc => workers[i].outcome = "returned"
\* C17: a worker that has not finished does not hold up the loop: with an
\* Envelope waiting, the loop can take it and start its worker.
C17_SlowHandlerDoesNotStall ==
    \A g \in Gens :
        (/\ proc[g] = "wait" /\ lpc[g] = "get" /\ queue # <<>>
         /\ \E i \in DOMAIN workers :
               workers[i].gen = g /\ workers[i].pc = "run")
        => ENABLED ListenGet(g)

C17_Witness ==
    \E i, j \in DOMAIN workers :
        /\ i < j
        /\ workers[i].pc = "run" /\ workers[i].fresh
        /\ workers[j].fresh /\ workers[j].gen = workers[i].gen
        /\ workers[j].env # workers[i].env
        /\ IsAlive(workers[i].gen)
Signalled(c) == Attempted(c, "terminate") \/ Attempted(c, "kill")

\* C18: as long as no terminate or kill has been sent, a worker that has been
\* started and has not finished its handler call is still able to finish it:
\* its process is running, whether or not the stop event is set.
C18_InFlightWorkerSurvivesStop ==
    \A i \in DOMAIN workers :
        (/\ workers[i].pc = "run"
         /\ ~Signalled(call)
         /\ \A g \in Gens : sig[g] = "none")
        => IsAlive(workers[i].gen)
C20_EmitNeverRaises ==
    [][/\ escaped' = escaped
       /\ emitted' # emitted =>
            \/ /\ handleErrors' = handleErrors + 1
               /\ queue' = queue /\ putLog' = putLog
            \/ /\ handleErrors' = handleErrors
               /\ Len(queue') = Len(queue) + 1]_vars

C20_Witness ==
    /\ handleErrors >= 1
    /\ escaped = 0
    /\ Len(putLog) >= 1
    /\ \E k \in DOMAIN putLog : ~putLog[k].cfg
EmitPut(p) ==
    /\ Emit(p)
    /\ escaped' = escaped
    /\ queue' = QueuePut(queue, Envelope(p, emitted + 1, FALSE, TRUE))

\* C21: what a producer can observe of a log call does not depend on the
\* listener: whether the listener has not started, is running, has stopped,
\* or one of its workers has failed, the call can return without raising
\* with its Envelope put on the queue.
C21_ProducerUnaffectedByListener ==
    \A p \in Loggers : emitted < MaxEmit => ENABLED EmitPut(p)

C21_Witness ==
    \E g \in Gens :
        /\ proc[g] = "exited" /\ stop_event
        /\ \E i \in DOMAIN workers : Did(workers[i], "config_failed")
        /\ queue # <<>>
        /\ ~QueueFront(queue).cfg /\ QueueFront(queue).src \in Loggers
\* C22: every Envelope that has been put on the shared queue carries a
\* record, a config, or both.
C22_EnvelopeNotEmpty ==
    /\ \A k \in DOMAIN putLog : putLog[k].rec \/ putLog[k].cfg
    /\ \A k \in DOMAIN queue : queue[k].rec \/ queue[k].cfg

C22_Witness ==
    \E i, j \in DOMAIN putLog :
        /\ putLog[i].src \in Loggers /\ putLog[i].rec /\ ~putLog[i].cfg
        /\ putLog[j].src \in Configurers /\ putLog[j].cfg
IsBatchEmit == batch'.n = batch.n + 1

\* C23: an emit() that leaves fewer than the size threshold buffered never
\* flushes; an emit() that finds at least the size threshold buffered, with
\* the time threshold elapsed or no flush ever made, flushes.
C23_FlushPredicate ==
    [][IsBatchEmit =>
        /\ Len(batch.buffer) + 1 < batch.size
              => batch'.implicit = batch.implicit
        /\ (/\ Len(batch.buffer) >= batch.size
            /\ \/ batch.last_emitted = NoTime
               \/ batch.now - batch.last_emitted >= batch.timeout)
              => batch'.implicit = batch.implicit + 1]_vars
\* the buffer a flush finds: an emit appends its record first
BufferAtFlush ==
    IF IsBatchEmit THEN Append(batch.buffer, batch.n + 1) ELSE batch.buffer

UnderLock(op, x) ==
    \E i, j, k \in DOMAIN op :
        /\ i < j /\ j < k
        /\ op[i] = "lock" /\ op[j] = x /\ op[k] = "unlock"
        /\ \A m \in (i + 1)..(j - 1) : op[m] # "unlock"
        /\ \A m \in (j + 1)..(k - 1) : op[m] # "lock"

\* C25: a flush of a non-empty buffer calls emit_many on the whole buffer
\* with the buffer lock held; the buffer is emptied exactly when emit_many
\* returns, and when it raises handleError is called and every record stays.
C25_FlushClearsOnlyOnSuccess ==
    [][batch'.calls = batch.calls + 1 =>
        /\ BufferAtFlush # <<>>
        /\ UnderLock(batch'.op, "emit_many")
        /\ batch'.buffer = <<>> <=> batch'.errors = batch.errors
        /\ batch'.errors = batch.errors =>
              /\ batch'.kind = "mongo"
                    => batch'.delivered = batch.delivered \o BufferAtFlush
              /\ UnderLock(batch'.op, "clear")
        /\ batch'.errors # batch.errors =>
              /\ batch'.errors = batch.errors + 1
              /\ UnderLock(batch'.op, "handleError")
              /\ batch'.buffer = BufferAtFlush
              /\ batch'.delivered = batch.delivered]_vars

C25_Witness ==
    /\ batch.kind = "mongo"
    /\ batch.errors >= 1
    /\ batch.delivered # <<>>
    /\ batch.buffer = <<>>
NoDup(q) == \A i, j \in DOMAIN q : q[i] = q[j] => i = j

C26_NoSilentDrop ==
    /\ mail.lost = {}
    /\ \A r \in 1..batch.n :
          \/ \E k \in DOMAIN batch.buffer : batch.buffer[k] = r
          \/ \E k \in DOMAIN batch.delivered : batch.delivered[k] = r

Range(q) == {q[k] : k \in DOMAIN q}

\* C28: of a message that was sent, the To header is the to-addresses joined
\* by ", ", the Cc header the cc-addresses joined by ", ", no bcc address is
\* in a header, and every to, cc and bcc address is a recipient of its own
\* in the SMTP envelope.
C28_EmailAddressing ==
    (mail.variant = "handlers" /\ mail.sent # <<>>) =>
        /\ ToHeader(mail) = JoinWith(mail.to, ", ")
        /\ CcHeader(mail) = JoinWith(mail.cc, ", ")
        /\ Range(mail.bcc) \cap (Range(ToHeader(mail))
                                 \cup Range(CcHeader(mail))) = {}
        /\ Range(mail.to \o mail.cc \o mail.bcc)
              \subseteq Range(EnvelopeRecipients(GetRecipients(mail)))

\* C29: with capacity 1 and a working SMTP server, the messages sent are as
\* many as the log calls whose record had a truthy email attribute, each
\* sent during its own call.
C29_OneMessagePerFlaggedCall ==
    (mail.variant = "handlers" /\ mail.capacity = 1 /\ ~mail.faulted) =>
        /\ Len(mail.sent) = mail.flagged
        /\ mail.buffer = <<>>
        /\ \A k \in DOMAIN mail.sent : Len(mail.sent[k]) = 1
FileContents == {hfile.base} \cup Range(hfile.archive)

\* C27: every file has the header at most once, as its first line; with a
\* header configured no file starts with a record of the handler, and more
\* records in the same file do not repeat the header.
C27_HeaderOnceAtStart ==
    \A c \in FileContents :
        /\ \A k \in DOMAIN c : c[k] = "H" => k = 1
        /\ (hfile.header /\ c # <<>>) => c[1] # "R"
        /\ ~hfile.header =>
              \A k \in DOMAIN c : c[k] = "H" => (Len(c) >= 2 /\ c[2] = "P")

C27_Witness ==
    /\ hfile.header
    /\ hfile.archive = << <<"H", "R", "R">> >>
    /\ hfile.base = <<"H", "R">>
InitCalls == {k \in DOMAIN server.log : server.log[k].op = "init_server"}

GetCalls == {k \in DOMAIN server.log : server.log[k].op = "get_shared_logger"}

\* C31: only the first call of init_server creates a queue; every later call
\* warns and returns, creates no second queue and no second listener daemon
\* and starts none, and the module keeps the queue of the first call.
C31_InitServerOnce ==
    /\ server.queues = (IF InitCalls = {} THEN 0 ELSE 1)
    /\ server.logger_queue = server.queues
    /\ server.daemons <= 1 /\ server.starts <= 1
    /\ \A k \in InitCalls :
          (\E j \in InitCalls : j < k) <=> server.log[k].outcome = "warned"
    /\ server.warnings =
          Cardinality({k \in InitCalls : \E j \in InitCalls : j < k})

C31_Witness ==
    /\ Cardinality(InitCalls) >= 2
    /\ server.warnings >= 1
    /\ server.queues = 1
    /\ GetCalls # {}

\* C32: get_shared_logger before init_server raises SharedLoggerException
\* and puts nothing on the queue; after init_server it puts exactly one
\* Envelope that carries the config.
C32_GetSharedLogger ==
    /\ \A k \in GetCalls :
          IF \E j \in InitCalls : j < k
          THEN server.log[k].outcome = "put"
          ELSE server.log[k].outcome = "SharedLoggerException"
    /\ Len(putLog) =
          Cardinality({k \in GetCalls : \E j \in InitCalls : j < k})
    /\ \A k \in DOMAIN putLog : putLog[k].cfg /\ ~putLog[k].rec

\* C33: the initializer given to the daemon is run once in the daemon
\* process, before the dispatch loop: the daemon that init_server asks for
\* with an initializer is built and started, and a process that is still in
\* its initializer has no dispatch loop and has taken nothing off the queue.
C33_InitializerRunsFirst ==
    /\ \A k \in InitCalls : server.log[k].outcome \in {"returned", "warned"}
    /\ InitCalls # {} => (server.daemons = 1 /\ server.starts = 1)
    /\ \A g \in Gens :
          proc[g] \in {"none", "init"} =>
              /\ lpc[g] = "none"
              /\ \A i \in DOMAIN workers : workers[i].gen # g

\* C36: handling an Envelope without a config leaves every logger that
\* exists as it is: its level, propagate flag, filters and handlers.
C36_RegistryChangedOnlyByConfig ==
    [][(registry'.handled # registry.handled /\
        registry'.last.config = NoConfig) =>
          \A n \in LoggerNames :
              registry.loggers[n].exists =>
                  registry'.loggers[n] = registry.loggers[n]]_vars

C36_Witness ==
    /\ registry.handled >= 2
    /\ registry.last.config = NoConfig
    /\ registry.last.record = "a"
    /\ registry.loggers["a"].level = "DEBUG"
    /\ registry.loggers["a"].handlers = <<"h1">>
    /\ ~registry.loggers["a"].propagate

\* the records in the buffer when the flush of a step begins
MailAtFlush ==
    Len(mail.buffer) + (IF mail'.op = "log" THEN 1 ELSE 0)

\* C37: a flush of the handler of config_utils.logging.handlers on a buffer
\* that is not empty, when it returns without raising, has opened exactly
\* one connection, has called sendmail once for every record that was in
\* the buffer, and leaves the buffer empty.
C37_FlushOneConnection ==
    [][(/\ mail.variant = "handlers"
        /\ mail'.attempts = mail.attempts + 1
        /\ mail'.outcome # "raised") =>
          /\ mail'.connects = mail.connects + 1
          /\ mail'.sendmails = mail.sendmails + MailAtFlush
          /\ mail'.buffer = <<>>]_vars

\* the batches in which record r was passed to an emit_many that returned
BatchesOf(r) ==
    {k \in DOMAIN threads.batches :
        /\ ~threads.batches[k].raised
        /\ \E i \in DOMAIN threads.batches[k].items :
              threads.batches[k].items[i] = r}

\* a record is still in the buffer, or was delivered in exactly one batch
DeliveredOnce ==
    \A r \in 1..batch.n :
        IF \E i \in DOMAIN batch.buffer : batch.buffer[i] = r
        THEN BatchesOf(r) = {}
        ELSE Cardinality(BatchesOf(r)) = 1

\* C38: with threads calling emit() and flush() on one handler, a record is
\* either still in the buffer or was delivered in exactly one batch, and
\* emit_many is never called on an empty batch.
C38_BatchesUnderThreads ==
    /\ DeliveredOnce
    /\ \A k \in DOMAIN threads.batches : threads.batches[k].items # <<>>

\* C39: with the listener started and the stop event never set, every
\* Envelope put on the queue is eventually taken off it and given to a
\* worker thread, whether or not an earlier get() raised.
C39_EveryEnvelopeDequeued ==
    \A k \in 1..MaxEmit :
        (Len(putLog) >= k /\ IsAlive(cur) /\ ~stop_event)
            ~> (stop_event \/
                \E i \in DOMAIN workers :
                    /\ workers[i].fresh
                    /\ Len(putLog) >= k
                    /\ workers[i].env = putLog[k])

\* C40: in a listener process that is running with the stop event not set,
\* the thread of the dequeue loop is running.
C40_LoopAliveWhileListening ==
    \A g \in Gens :
        (proc[g] = "wait" /\ ~stop_event) => lpc[g] = "get"

\* the elements of a list, in order
Elements(l) == [i \in DOMAIN l.items |-> l.items[i].v]

\* C34: join(obj) merges obj when it is of the receiver's class and inserts
\* it as one item otherwise; on a ListContext, joining a ListContext appends
\* its elements one by one, and inserting a ListContext appends it whole.
C34_JoinMergesOwnClass ==
    /\ context.op = "join" =>
          context.recv = (IF context.obj.t = context.before.t
                          THEN Merge(context.before, context.obj)
                          ELSE Insert(context.before, context.obj, NoKey))
    /\ (context.op = "join" /\ context.before.t = "L") =>
          Elements(context.recv) =
              Elements(context.before) \o
              (IF context.obj.t = "L" THEN Elements(context.obj)
               ELSE <<context.obj>>)
    /\ (context.op = "insert" /\ context.before.t = "L") =>
          Elements(context.recv) =
              Elements(context.before) \o <<context.obj>>

C34_Witness ==
    /\ context.calls = 2
    /\ context.op = "join"
    /\ context.before.t = "L" /\ context.obj = List1
    /\ \E i \in DOMAIN context.before.items :
          context.before.items[i].v = List1
    /\ Len(context.recv.items) = Len(context.before.items) + 1
    /\ context.recv.items[Len(context.recv.items)].v = Atom2

KeysOf(d) == [i \in DOMAIN d.items |-> d.items[i].k]

\* C35: insert(item, key) on a DictContext whose value under key is a
\* context joins the item into that value: the keys stay as they are, the
\* value under key is the same object, now holding the item, and no other
\* value changes; otherwise the item becomes the value under key.
C35_InsertDelegatesToNested ==
    (context.op = "insert" /\ context.before.t = "D"
     /\ context.key # NoKey) =>
        LET k == context.key
            b == context.before
            r == context.recv
        IN  /\ \A i \in DOMAIN b.items :
                  b.items[i].k # k => r.items[i] = b.items[i]
            /\ IF HasKey(b, k) /\ IsContext(Lookup(b, k))
               THEN /\ KeysOf(r) = KeysOf(b)
                    /\ Lookup(r, k).id = Lookup(b, k).id
                    /\ Lookup(r, k) = Join(Lookup(b, k), context.obj)
               ELSE /\ HasKey(r, k) /\ Lookup(r, k) = context.obj
                    /\ KeysOf(r) = (IF HasKey(b, k) THEN KeysOf(b)
                                    ELSE Append(KeysOf(b), k))

C35_Witness ==
    /\ context.op = "insert" /\ context.key = "sub"
    /\ context.before.t = "D"
    /\ HasKey(context.before, "sub")
    /\ Lookup(context.before, "sub").t = "L"
    /\ context.obj = Atom1
    /\ Lookup(context.recv, "sub").id = "@l0"
    /\ \E i \in DOMAIN Lookup(context.recv, "sub").items :
          Lookup(context.recv, "sub").items[i].v = Atom1

====
